---- MODULE Spec2Model ----
(***************************************************************************)
(* Chat orchestration layer of the portfolio site: the useChatLogic hook   *)
(* (chat state machine), the AI response service (generateAIResponse,      *)
(* withRetry), the RateLimiter and the NetworkMonitor.                     *)
(*                                                                         *)
(* Time is kept as ages: where the code stores a timestamp t and later     *)
(* reads Date.now() - t, the model stores that difference and lets Tick    *)
(* add the time passed to every stored age (saturating at AgeCap, beyond   *)
(* which no comparison in the code can tell two ages apart).               *)
(*                                                                         *)
(* One JavaScript task (an event handler or a promise continuation with    *)
(* all the microtasks it triggers) is one action, and React has rendered   *)
(* the state before the next one: a handler reads from its closure the     *)
(* chat state as it was when the action began (the unprimed chatState) and *)
(* writes through functional updates.                                      *)
(***************************************************************************)
EXTENDS Integers, Sequences, FiniteSets, TLC

VARIABLES chatState, rateLimiter, monitor, calls, last

vars == <<chatState, rateLimiter, monitor, calls, last>>

(***************************************************************************)
(* Bounds of the model                                                     *)
(***************************************************************************)
TickMs == 60000
FineTickMs == 20000
MaxMessages == 1
MaxCalls == 1
MaxRetryCount == 3
MaxFailureCount == 4
MaxRecent == 1
LongReplyLen == 700
MaxOverlap == 2
EdgeWidth == 2
MaxPieces == 4

(***************************************************************************)
(* Program constants                                                       *)
(***************************************************************************)
maxRetries == 3
timeout == 30000
maxRequests == 10
windowMs == 60000
CooldownMs == 30000
FailureThreshold == 3
SpeedTestIntervalMs == 30000
SlowThresholdMs == 2000
MaxInputLength == 500
MinInputLength == 2
SlowExtraRetries == 2
SlowRetryCap == 5
TemplateLen == 488
EnhancedSuffixLen == 140
RateLimitTextLen == 64

AgeCap == windowMs

Min(a, b) == IF a < b THEN a ELSE b
Max(a, b) == IF a > b THEN a ELSE b

\* Date.now() - t, ms later
Older(age, ms) == Min(age + ms, AgeCap)

(***************************************************************************)
(* Texts.  A text is described by what the validator and the sanitizer see *)
(* in it: a sequence of stages, stage 1 the text itself and stage k+1 the  *)
(* text after one more pass of sanitizeUserInput.  len is the trimmed      *)
(* length; unsafe says that one of the rejecting patterns matches.         *)
(***************************************************************************)
Stage(n, u) == [len |-> n, unsafe |-> u]

NoText == << >>
TBlank == << Stage(0, FALSE) >>
TOne == << Stage(1, FALSE) >>
TPlain == << Stage(20, FALSE) >>
TUnsafe == << Stage(20, TRUE) >>
TTagOnly == << Stage(12, FALSE), Stage(0, FALSE) >>
TTagShort == << Stage(12, FALSE), Stage(1, FALSE) >>

TMax == << Stage(MaxInputLength, FALSE) >>
TOver == << Stage(MaxInputLength + 1, FALSE) >>

Texts == {TBlank, TOne, TPlain, TTagOnly, TTagShort}

\* !message.trim()  /  !chatState.lastFailedMessage
IsBlank(t) == t = NoText \/ t[1].len = 0

\* .trim().slice(0, 500) and the replacements: the next stage of the text,
\* or the text itself, cut at 500 characters, when it has no further stage
sanitizeUserInput(t) ==
    IF Len(t) > 1 THEN Tail(t)
    ELSE IF Len(t) = 1 /\ t[1].len > MaxInputLength
        THEN << Stage(MaxInputLength, t[1].unsafe) >>
    ELSE t

\* validateUserInput that accepts every text as it is
validateUserInputUnchecked(t) == [isValid |-> TRUE, error |-> "", sanitized |-> t]

\* validateUserInput refusing a text of exactly 500 characters
validateUserInputExclusive(t) ==
    IF IsBlank(t) THEN [isValid |-> FALSE, error |-> "V_EMPTY", sanitized |-> NoText]
    ELSE IF t[1].len >= MaxInputLength
        THEN [isValid |-> FALSE, error |-> "V_TOO_LONG", sanitized |-> NoText]
    ELSE IF t[1].len < MinInputLength
        THEN [isValid |-> FALSE, error |-> "V_TOO_SHORT", sanitized |-> NoText]
    ELSE IF t[1].unsafe
        THEN [isValid |-> FALSE, error |-> "V_HARMFUL", sanitized |-> NoText]
    ELSE [isValid |-> TRUE, error |-> "", sanitized |-> sanitizeUserInput(t)]

validateUserInput(t) ==
    IF IsBlank(t) THEN [isValid |-> FALSE, error |-> "V_EMPTY", sanitized |-> NoText]
    ELSE IF t[1].len > MaxInputLength
        THEN [isValid |-> FALSE, error |-> "V_TOO_LONG", sanitized |-> NoText]
    ELSE IF t[1].len < MinInputLength
        THEN [isValid |-> FALSE, error |-> "V_TOO_SHORT", sanitized |-> NoText]
    ELSE IF t[1].unsafe
        THEN [isValid |-> FALSE, error |-> "V_HARMFUL", sanitized |-> NoText]
    ELSE [isValid |-> TRUE, error |-> "", sanitized |-> sanitizeUserInput(t)]

validateInput(t) ==
    LET validation == validateUserInput(t)
    IN  [valid |-> validation.isValid, error |-> validation.error]

(***************************************************************************)
(* sanitizeUserInput on strings.  A string is a sequence of pieces, each a  *)
(* literal piece of text: "da" and "ta:" (which make "data:" when the one  *)
(* follows the other), a space, "<" and ">".  On such strings the          *)
(* replacements of "javascript:", "vbscript:", event handlers,             *)
(* "expression(", "@import", "binding:", "behavior:" and control characters *)
(* find nothing to replace.                                                *)
(***************************************************************************)
Pieces == {"da", "ta:", " ", "<", ">"}

PieceLength(p) == IF p = "da" THEN 2 ELSE IF p = "ta:" THEN 3 ELSE 1

\* .trim()
RECURSIVE TrimStart(_)
TrimStart(s) == IF s # << >> /\ Head(s) = " " THEN TrimStart(Tail(s)) ELSE s

RECURSIVE TrimEnd(_)
TrimEnd(s) ==
    IF s # << >> /\ s[Len(s)] = " " THEN TrimEnd(SubSeq(s, 1, Len(s) - 1)) ELSE s

Trim(s) == TrimEnd(TrimStart(s))

\* .slice(0, end): the pieces that end within the first end characters
RECURSIVE Slice(_, _)
Slice(s, end) ==
    IF s = << >> \/ PieceLength(Head(s)) > end THEN << >>
    ELSE << Head(s) >> \o Slice(Tail(s), end - PieceLength(Head(s)))

\* the index of the first ">" of s, 0 when it has none
RECURSIVE FirstClose(_)
FirstClose(s) ==
    IF s = << >> THEN 0
    ELSE IF Head(s) = ">" THEN 1
    ELSE IF FirstClose(Tail(s)) = 0 THEN 0
    ELSE FirstClose(Tail(s)) + 1

\* .replace(/<[^>]*>/g, ''): from the left, each "<" with a ">" after it is
\* removed with everything up to the first such ">"
RECURSIVE RemoveTags(_)
RemoveTags(s) ==
    IF s = << >> THEN << >>
    ELSE IF Head(s) = "<" /\ FirstClose(s) # 0
        THEN RemoveTags(SubSeq(s, FirstClose(s) + 1, Len(s)))
    ELSE << Head(s) >> \o RemoveTags(Tail(s))

\* .replace(/data:/gi, ''): from the left, each "da" followed by "ta:" is
\* removed; what the removal brings together is not looked at again
RECURSIVE RemoveData(_)
RemoveData(s) ==
    IF Len(s) < 2 THEN s
    ELSE IF s[1] = "da" /\ s[2] = "ta:" THEN RemoveData(SubSeq(s, 3, Len(s)))
    ELSE << Head(s) >> \o RemoveData(Tail(s))

\* .replace(/\s+/g, ' ')
RECURSIVE CollapseSpaces(_)
CollapseSpaces(s) ==
    IF Len(s) < 2 THEN s
    ELSE IF s[1] = " " /\ s[2] = " " THEN CollapseSpaces(Tail(s))
    ELSE << Head(s) >> \o CollapseSpaces(Tail(s))

sanitizeUserInputString(s) ==
    CollapseSpaces(RemoveData(RemoveTags(Slice(Trim(s), MaxInputLength))))

(***************************************************************************)
(* Error taxonomy                                                          *)
(***************************************************************************)
AIServiceError == {"NETWORK_ERROR", "API_ERROR", "TIMEOUT_ERROR",
                   "RATE_LIMIT_ERROR", "INVALID_INPUT", "SERVICE_UNAVAILABLE"}

\* messages of the errors thrown by callGeminiAPI, and the timeout's
ThrownByApi == {"Rate limit exceeded",
                "Invalid API key configuration",
                "Network error - please check your connection",
                "AI service temporarily unavailable"}
TimeoutMessage == "Request timeout"

\* error.message.toLowerCase().includes(...): the messages holding each needle
HasNetworkOrFetch == {"Network error - please check your connection"}
HasTimeout == {"Request timeout"}
HasRateLimit == {"Rate limit exceeded"}
HasInvalid == {"Invalid API key configuration"}
HasServiceUnavailable == {}

classifyError(message) ==
    IF message \in HasNetworkOrFetch THEN "NETWORK_ERROR"
    ELSE IF message \in HasTimeout THEN "TIMEOUT_ERROR"
    ELSE IF message \in HasRateLimit THEN "RATE_LIMIT_ERROR"
    ELSE IF message \in HasInvalid THEN "INVALID_INPUT"
    ELSE IF message \in HasServiceUnavailable THEN "SERVICE_UNAVAILABLE"
    ELSE "API_ERROR"

shouldRetryErrorAlways(errorType) == TRUE

\* shouldRetryError with the rate limit among the retried types
shouldRetryErrorRateLimit(errorType) ==
    errorType \in {"NETWORK_ERROR", "TIMEOUT_ERROR", "SERVICE_UNAVAILABLE",
                   "API_ERROR", "RATE_LIMIT_ERROR"}

shouldRetryError(errorType) ==
    CASE errorType \in {"NETWORK_ERROR", "TIMEOUT_ERROR",
                        "SERVICE_UNAVAILABLE", "API_ERROR"} -> TRUE
      [] errorType \in {"RATE_LIMIT_ERROR", "INVALID_INPUT"} -> FALSE
      [] OTHER -> FALSE

\* an AIServiceResponse; response is [kind, len], kind "" when absent
NoError == [type |-> "", message |-> "", retryable |-> FALSE]
NoResponse == [kind |-> "", len |-> 0]
NoResult == [success |-> FALSE, response |-> NoResponse, error |-> NoError,
             fallbackUsed |-> FALSE]

ErrorResult(type, message, retryable) ==
    [success |-> FALSE, response |-> NoResponse,
     error |-> [type |-> type, message |-> message, retryable |-> retryable],
     fallbackUsed |-> FALSE]

SuccessResult(kind, len, fallback) ==
    [success |-> TRUE, response |-> [kind |-> kind, len |-> len],
     error |-> NoError, fallbackUsed |-> fallback]

\* the text shown for an error, with its length
getErrorMessage(error) ==
    CASE error.type = "NETWORK_ERROR" -> [id |-> "MSG_NETWORK", len |-> 213]
      [] error.type = "API_ERROR" -> [id |-> "MSG_API", len |-> 192]
      [] error.type = "TIMEOUT_ERROR" -> [id |-> "MSG_TIMEOUT", len |-> 211]
      [] error.type = "RATE_LIMIT_ERROR" -> [id |-> error.message, len |-> RateLimitTextLen]
      [] error.type = "INVALID_INPUT" ->
            IF error.message = "V_HARMFUL" THEN [id |-> "MSG_HARMFUL", len |-> 140]
            ELSE IF error.message = "V_TOO_SHORT" THEN [id |-> "MSG_SHORT", len |-> 116]
            ELSE [id |-> "MSG_REPHRASE", len |-> 148]
      [] error.type = "SERVICE_UNAVAILABLE" -> [id |-> "MSG_UNAVAILABLE", len |-> 217]
      [] OTHER -> [id |-> "MSG_UNEXPECTED", len |-> 185]

isRetryableError(error) == error.retryable

generateTemplateResponse(t) == [kind |-> "fallback", len |-> TemplateLen]

generateEnhancedFallback(t) ==
    [kind |-> "fallback", len |-> generateTemplateResponse(t).len + EnhancedSuffixLen]

(***************************************************************************)
(* RateLimiter.  requests holds the age of every stored timestamp, oldest  *)
(* first; failureCount stops counting at MaxFailureCount.                  *)
(***************************************************************************)
InWindow(age) == age < windowMs

InCooldownOffByOne(rl) ==
    rl.failureCount > FailureThreshold + 1 /\ rl.lastFailureAge < CooldownMs

InCooldown(rl) == rl.failureCount > FailureThreshold /\ rl.lastFailureAge < CooldownMs

\* canMakeRequest refusing only beyond maxRequests stored requests
canMakeRequestOffByOne(rl) ==
    IF InCooldown(rl)
        THEN [ok |-> FALSE, rl |-> rl]
    ELSE LET kept == SelectSeq(rl.requests, InWindow)
         IN  IF Len(kept) > maxRequests
                 THEN [ok |-> FALSE, rl |-> [rl EXCEPT !.requests = kept]]
             ELSE [ok |-> TRUE, rl |-> [rl EXCEPT !.requests = Append(kept, 0)]]

\* canMakeRequest counting the requests after the new one is stored
canMakeRequestStoreFirst(rl) ==
    IF InCooldown(rl)
        THEN [ok |-> FALSE, rl |-> rl]
    ELSE LET kept == Append(SelectSeq(rl.requests, InWindow), 0)
         IN  [ok |-> Len(kept) <= maxRequests + 1,
              rl |-> [rl EXCEPT !.requests = kept]]

canMakeRequest(rl) ==
    IF InCooldown(rl)
        THEN [ok |-> FALSE, rl |-> rl]
    ELSE LET kept == SelectSeq(rl.requests, InWindow)
         IN  IF Len(kept) >= maxRequests
                 THEN [ok |-> FALSE, rl |-> [rl EXCEPT !.requests = kept]]
             ELSE [ok |-> TRUE, rl |-> [rl EXCEPT !.requests = Append(kept, 0)]]

\* recordFailure counting no further than the threshold
recordFailureUpToThreshold(rl) ==
    [rl EXCEPT !.failureCount = Min(@ + 1, FailureThreshold), !.lastFailureAge = 0]

recordFailure(rl) ==
    [rl EXCEPT !.failureCount = Min(@ + 1, MaxFailureCount), !.lastFailureAge = 0]

recordSuccess(rl) ==
    IF rl.failureCount > 0
        THEN [rl EXCEPT !.failureCount = Max(0, @ - 1)]
    ELSE rl

getTimeUntilReset(rl) ==
    IF InCooldown(rl) THEN CooldownMs - rl.lastFailureAge
    ELSE IF Len(rl.requests) = 0 THEN 0
    ELSE Max(0, windowMs - rl.requests[1])

(***************************************************************************)
(* NetworkMonitor                                                          *)
(***************************************************************************)
getNetworkStatus(mon) ==
    IF ~mon.isOnline THEN "offline"
    ELSE IF mon.connectionSpeed = "slow" THEN "slow" ELSE "online"

\* checkConnectionSpeed without the navigator.onLine test
checkConnectionSpeedSyncThrottleOnly(mon) ==
    IF mon.lastSpeedTestAge < SpeedTestIntervalMs THEN mon.connectionSpeed
    ELSE "fetch"

\* checkConnectionSpeed up to its fetch: the status it returns at once, or "fetch"
checkConnectionSpeedSync(mon) ==
    IF ~mon.isOnline THEN "offline"
    ELSE IF mon.lastSpeedTestAge < SpeedTestIntervalMs THEN mon.connectionSpeed
    ELSE "fetch"

ProbeOutcomes == {"ok", "notok", "throw"}
ProbeDelays == {100, 2500}

\* checkConnectionSpeedSettle taking a fetch that throws for being offline
checkConnectionSpeedSettleOffline(mon, outcome, responseTime, probeAge) ==
    CASE outcome = "ok" ->
            [mon EXCEPT !.connectionSpeed =
                            IF responseTime > SlowThresholdMs THEN "slow" ELSE "fast",
                        !.lastSpeedTestAge = probeAge]
      [] outcome = "notok" -> mon
      [] outcome = "throw" -> [mon EXCEPT !.connectionSpeed = "offline"]

\* checkConnectionSpeed from the settling of its fetch, begun probeAge ago
checkConnectionSpeedSettle(mon, outcome, responseTime, probeAge) ==
    CASE outcome = "ok" ->
            [mon EXCEPT !.connectionSpeed =
                            IF responseTime > SlowThresholdMs THEN "slow" ELSE "fast",
                        !.lastSpeedTestAge = probeAge]
      [] outcome = "notok" -> mon
      [] outcome = "throw" -> [mon EXCEPT !.connectionSpeed = "slow"]

(***************************************************************************)
(* Chat state (useChatLogic)                                               *)
(***************************************************************************)
\* generateMessageId: the model numbers the messages, modulo IdSpace
IdSpace == MaxMessages + 2

NextId(messages) ==
    IF Len(messages) = 0 THEN 0 ELSE (messages[Len(messages)].id + 1) % IdSpace

Message(id, content, sender) ==
    [id |-> id, sender |-> sender, kind |-> content.kind, len |-> content.len]

UserContent(t) == [kind |-> "text", len |-> t[1].len]

\* isValidMessage without the test of the content
isValidMessageAnyContent(content) == TRUE

\* createMessage trims; isValidMessage refuses empty content
isValidMessage(content) == content.len > 0

\* [...prev.messages, newMessage]; the model keeps the latest MaxMessages entries
AppendMessage(messages, m) ==
    IF Len(messages) < MaxMessages THEN Append(messages, m)
    ELSE Append(Tail(messages), m)

addMessage(cs, content, sender) ==
    [cs EXCEPT !.messages = AppendMessage(@, Message(NextId(@), content, sender))]

setLoadingState(cs, isLoading) == [cs EXCEPT !.isLoading = isLoading]

clearInput(cs) == [cs EXCEPT !.currentInput = NoText]

\* setError leaving the stored failed text as it is
setErrorKeepingFailedText(cs, error, canRetry, lastFailedMessage) ==
    [cs EXCEPT !.error = error, !.canRetry = canRetry]

setError(cs, error, canRetry, lastFailedMessage) ==
    [cs EXCEPT !.error = error, !.canRetry = canRetry,
               !.lastFailedMessage = lastFailedMessage]

updateNetworkStatus(cs, status) == [cs EXCEPT !.networkStatus = status]

(***************************************************************************)
(* generateAIResponse and withRetry.  A call is one invocation of          *)
(* generateAIResponse that is waiting for something: the probe of its      *)
(* first checkConnectionSpeed (pc "probe") or the race between withRetry   *)
(* and the timeout (pc "race").  returned says that the race was settled   *)
(* by the timeout and the result handed back while the retry loop of the   *)
(* call goes on.  loop is where the retry loop waits: the operation        *)
(* ("op"), the probe before a retry ("probing") or the retry delay         *)
(* ("sleep").  offlineAtCall and admitted record what the call met on its   *)
(* way in.  A local that the code reads no more (the age of a settled      *)
(* probe, the error of a retry under way, the arguments of a call whose    *)
(* result was handed back) is reset.                                       *)
(***************************************************************************)
NewCall(caller, text, retryCount, mon) ==
    [caller |-> caller, text |-> text, retryCount |-> retryCount,
     pc |-> "probe", returned |-> FALSE, status |-> "fast",
     raceAge |-> 0, probeAge |-> 0, loop |-> "none",
     attempt |-> 0, actualRetries |-> 0, lastError |-> "",
     offlineAtCall |-> ~mon.isOnline, admitted |-> FALSE]

NoCall == [caller |-> "", text |-> NoText, retryCount |-> 0,
           pc |-> "", returned |-> FALSE, status |-> "fast",
           raceAge |-> 0, probeAge |-> 0, loop |-> "none",
           attempt |-> 0, actualRetries |-> 0, lastError |-> "",
           offlineAtCall |-> FALSE, admitted |-> FALSE]

\* the invocations of the operation made so far by the retry loop of call c
Attempts(c) == IF c.loop = "none" THEN 0 ELSE c.attempt + 1

ReplyLens == {120}

\* how one callAIService invocation settles
RemoteOutcomes ==
    [ok : {TRUE}, len : ReplyLens, message : {""}] \cup
    [ok : {FALSE}, len : {0}, message : ThrownByApi]

RemoteFailures == {o \in RemoteOutcomes : ~o.ok}

RetryableFailures == {o \in RemoteFailures : shouldRetryError(classifyError(o.message))}

\* ActualRetries granting a slow connection three retries more
ActualRetriesSlowThreeExtra(networkStatus) ==
    IF networkStatus = "slow" THEN maxRetries + SlowExtraRetries + 1
    ELSE IF networkStatus = "offline" THEN 0
    ELSE maxRetries

\* withRetry: the retry budget for the network status at its start
ActualRetries(networkStatus) ==
    IF networkStatus = "slow" THEN Min(maxRetries + SlowExtraRetries, SlowRetryCap)
    ELSE IF networkStatus = "offline" THEN 0
    ELSE maxRetries

TimeoutFor(status) == IF status = "slow" THEN timeout * 2 ELSE timeout

\* CatchAiError comparing the retry count with <=
CatchAiErrorOffByOne(c, message) ==
    LET errorType == classifyError(message)
    IN  IF shouldRetryError(errorType) /\ c.retryCount <= maxRetries
            THEN ErrorResult(errorType,
                     getErrorMessage([type |-> errorType, message |-> message,
                                      retryable |-> TRUE]).id, TRUE)
        ELSE SuccessResult("fallback",
                 generateEnhancedFallback(sanitizeUserInput(c.text)).len, TRUE)

\* CatchAiError returning the error whatever the retry count
CatchAiErrorNoFallback(c, message) ==
    LET errorType == classifyError(message)
    IN  ErrorResult(errorType,
            getErrorMessage([type |-> errorType, message |-> message,
                             retryable |-> TRUE]).id, TRUE)

\* generateAIResponse: the catch around the race
CatchAiError(c, message) ==
    LET errorType == classifyError(message)
    IN  IF shouldRetryError(errorType) /\ c.retryCount < maxRetries
            THEN ErrorResult(errorType,
                     getErrorMessage([type |-> errorType, message |-> message,
                                      retryable |-> TRUE]).id, TRUE)
        ELSE SuccessResult("fallback",
                 generateEnhancedFallback(sanitizeUserInput(c.text)).len, TRUE)

RateLimitMessage(rl) ==
    IF getTimeUntilReset(rl) > 60 * 1000 THEN "MSG_WAIT_A_MOMENT" ELSE "MSG_RATE_LIMIT_WAIT"

\* generateAIResponse asking the limiter before it validates the text
AfterStatusLimiterFirst(c, status, rl, mon) ==
    IF status = "offline"
        THEN [pending |-> FALSE, call |-> c, rl |-> rl,
              res |-> ErrorResult("NETWORK_ERROR", "MSG_OFFLINE", TRUE)]
    ELSE LET lim == canMakeRequest(rl)
         IN  IF ~lim.ok
                 THEN [pending |-> FALSE, call |-> c, rl |-> lim.rl,
                       res |-> ErrorResult("RATE_LIMIT_ERROR",
                                           RateLimitMessage(lim.rl), TRUE)]
             ELSE IF ~validateInput(c.text).valid
                 THEN [pending |-> FALSE, call |-> [c EXCEPT !.admitted = TRUE],
                       rl |-> lim.rl,
                       res |-> ErrorResult("INVALID_INPUT",
                                           validateInput(c.text).error, FALSE)]
             ELSE [pending |-> TRUE,
                   call |-> [c EXCEPT !.pc = "race", !.status = status,
                                      !.admitted = TRUE, !.raceAge = 0,
                                      !.loop = "op", !.attempt = 0,
                                      !.probeAge = 0,
                                      !.actualRetries =
                                          ActualRetries(getNetworkStatus(mon))],
                   rl |-> lim.rl, res |-> NoResult]

\* generateAIResponse from the status of its first checkConnectionSpeed up to
\* the first invocation of the operation by withRetry
AfterStatus(c, status, rl, mon) ==
    IF status = "offline"
        THEN [pending |-> FALSE, call |-> c, rl |-> rl,
              res |-> ErrorResult("NETWORK_ERROR", "MSG_OFFLINE", TRUE)]
    ELSE IF ~validateInput(c.text).valid
        THEN [pending |-> FALSE, call |-> c, rl |-> rl,
              res |-> ErrorResult("INVALID_INPUT", validateInput(c.text).error, FALSE)]
    ELSE LET lim == canMakeRequest(rl)
         IN  IF ~lim.ok
                 THEN [pending |-> FALSE, call |-> c, rl |-> lim.rl,
                       res |-> ErrorResult("RATE_LIMIT_ERROR",
                                           RateLimitMessage(lim.rl), TRUE)]
             ELSE IF ~validateUserInput(c.text).isValid
                 THEN [pending |-> FALSE, call |-> [c EXCEPT !.admitted = TRUE],
                       rl |-> lim.rl,
                       res |-> ErrorResult("INVALID_INPUT",
                                           validateUserInput(c.text).error, FALSE)]
             ELSE [pending |-> TRUE,
                   call |-> [c EXCEPT !.pc = "race", !.status = status,
                                      !.admitted = TRUE, !.raceAge = 0,
                                      !.loop = "op", !.attempt = 0,
                                      !.probeAge = 0,
                                      !.actualRetries =
                                          ActualRetries(getNetworkStatus(mon))],
                   rl |-> lim.rl, res |-> NoResult]

\* generateAIResponse from its invocation
Begin(c, rl, mon) ==
    LET status == checkConnectionSpeedSync(mon)
    IN  IF status = "fetch"
            THEN [pending |-> TRUE, call |-> c, rl |-> rl, res |-> NoResult]
        ELSE AfterStatus(c, status, rl, mon)

(***************************************************************************)
(* handleSendMessage                                                       *)
(***************************************************************************)
\* the catch block
SendCatch(cs, message) ==
    setError(addMessage(setLoadingState(cs, FALSE),
                        generateTemplateResponse(message), "ai"),
             "", FALSE, NoText)

\* Resume dropping the reply of a successful call
ResumeWithoutReply(cs, res, sanitizedMessage) ==
    IF res.success /\ res.response.kind # ""
        THEN setLoadingState([cs EXCEPT !.retryCount = 0], FALSE)
    ELSE LET errorMessage == getErrorMessage(res.error)
         IN  IF isRetryableError(res.error)
                 THEN setLoadingState(
                          setError(cs, errorMessage.id, TRUE, sanitizedMessage), FALSE)
             ELSE setLoadingState(
                      setError(addMessage(cs, [kind |-> "error",
                                               len |-> errorMessage.len], "ai"),
                               "", FALSE, NoText),
                      FALSE)

\* Resume showing every error in the banner
ResumeWithBanner(cs, res, sanitizedMessage) ==
    IF res.success /\ res.response.kind # ""
        THEN IF isValidMessage(res.response)
                 THEN setLoadingState(
                          [addMessage(cs, res.response, "ai") EXCEPT !.retryCount = 0],
                          FALSE)
             ELSE SendCatch(cs, sanitizedMessage)
    ELSE LET errorMessage == getErrorMessage(res.error)
         IN  setLoadingState(
                 setError(cs, errorMessage.id, isRetryableError(res.error),
                          IF isRetryableError(res.error) THEN sanitizedMessage
                          ELSE NoText),
                 FALSE)

\* Resume without the reset of the retry count on success
ResumeKeepingCount(cs, res, sanitizedMessage) ==
    IF res.success /\ res.response.kind # ""
        THEN IF isValidMessage(res.response)
                 THEN setLoadingState(addMessage(cs, res.response, "ai"), FALSE)
             ELSE SendCatch(cs, sanitizedMessage)
    ELSE LET errorMessage == IF res.error.type # "" THEN getErrorMessage(res.error)
                             ELSE [id |-> "MSG_TROUBLE", len |-> 70]
         IN  IF res.error.type # "" /\ isRetryableError(res.error)
                 THEN setLoadingState(
                          setError(cs, errorMessage.id, TRUE, sanitizedMessage), FALSE)
             ELSE setLoadingState(
                      setError(addMessage(cs, [kind |-> "error",
                                               len |-> errorMessage.len], "ai"),
                               "", FALSE, NoText),
                      FALSE)

\* from the return of generateAIResponse to the end
Resume(cs, res, sanitizedMessage) ==
    IF res.success /\ res.response.kind # ""
        THEN IF isValidMessage(res.response)
                 THEN setLoadingState(
                          [addMessage(cs, res.response, "ai") EXCEPT !.retryCount = 0],
                          FALSE)
             ELSE SendCatch(cs, sanitizedMessage)
    ELSE LET errorMessage == IF res.error.type # "" THEN getErrorMessage(res.error)
                             ELSE [id |-> "MSG_TROUBLE", len |-> 70]
         IN  IF res.error.type # "" /\ isRetryableError(res.error)
                 THEN setLoadingState(
                          setError(cs, errorMessage.id, TRUE, sanitizedMessage), FALSE)
             ELSE setLoadingState(
                      setError(addMessage(cs, [kind |-> "error",
                                               len |-> errorMessage.len], "ai"),
                               "", FALSE, NoText),
                      FALSE)

HookBusy == \E i \in 1..Len(calls) : calls[i].caller = "hook" /\ ~calls[i].returned

\* the operation of the latest step, for the properties: its name and text,
\* whether a send of the hook was in flight when it began (busy), whether it
\* ended a send of the hook or a direct call (done), the AIServiceResponse
\* it returned, and of the call of generateAIResponse it began or ended
\* the caller ("" when it touched none), the retry count, the number of
\* invocations of the operation, the retry budget of its withRetry and what
\* the call met on its way in.  The end of a retry loop whose result nobody
\* waits for any more is the operation "abandoned".
\* streak is kept where the methods of the RateLimiter are invoked one by
\* one: the number of recordFailure calls since the latest recordSuccess,
\* counted up to FailureThreshold + 1.
Mark(op, text, busy, done, res, call) ==
    [op |-> op, text |-> text, busy |-> busy, done |-> done, res |-> res,
     caller |-> call.caller, retryCount |-> call.retryCount,
     attempts |-> Attempts(call), actualRetries |-> call.actualRetries,
     offlineAtCall |-> call.offlineAtCall, admitted |-> call.admitted,
     streak |-> 0]

NoOp == Mark("", NoText, FALSE, FALSE, NoResult, NoCall)

SendRefusedWhenBlankOnly(message) == IsBlank(message)

\* the guard of handleSendMessage
SendRefused(message) == chatState.isLoading \/ IsBlank(message)

\* handleSendMessage(message) of the current render, run when the updates
\* already queued in this event have led to chat state cs: the state it
\* leaves and the call it leaves waiting
SendStep(cs, message) ==
    IF SendRefused(message)
        THEN [cs |-> cs, rl |-> rateLimiter, calls |-> calls,
              done |-> FALSE, res |-> NoResult, call |-> NoCall]
    ELSE IF chatState.networkStatus = "offline"
        THEN LET cs1 == setError(cs, "MSG_YOU_ARE_OFFLINE", TRUE, message)
             IN  [cs |-> cs1, rl |-> rateLimiter, calls |-> calls,
                  done |-> TRUE, res |-> NoResult, call |-> NoCall]
    ELSE LET cs1 == setError(cs, "", FALSE, NoText)
             validation == validateUserInput(message)
         IN  IF ~validation.isValid
                 THEN LET cs2 == setError(cs1, validation.error, FALSE, NoText)
                      IN  [cs |-> cs2, rl |-> rateLimiter,
                           calls |-> calls, done |-> TRUE, res |-> NoResult,
                           call |-> NoCall]
             ELSE IF ~isValidMessage(UserContent(validation.sanitized))
                 THEN LET cs2 == SendCatch(cs1, message)
                      IN  [cs |-> cs2, rl |-> rateLimiter,
                           calls |-> calls, done |-> TRUE, res |-> NoResult,
                           call |-> NoCall]
             ELSE LET sanitizedMessage == validation.sanitized
                      cs3 == setLoadingState(
                                 clearInput(addMessage(cs1, UserContent(sanitizedMessage),
                                                       "user")), TRUE)
                      out == Begin(NewCall("hook", sanitizedMessage,
                                           chatState.retryCount, monitor),
                                   rateLimiter, monitor)
                  IN  IF out.pending
                          THEN [cs |-> cs3, rl |-> out.rl,
                                calls |-> Append(calls, out.call),
                                done |-> FALSE, res |-> NoResult, call |-> out.call]
                      ELSE [cs |-> Resume(cs3, out.res, sanitizedMessage),
                            rl |-> out.rl, calls |-> calls,
                            done |-> TRUE, res |-> out.res, call |-> out.call]

\* the model follows at most cap calls of generateAIResponse at once, those
\* whose retry loop outlives its timeout included
ApplySendWithin(cap, op, cs, message) ==
    LET step == SendStep(cs, message)
    IN  /\ Len(step.calls) <= cap
        /\ chatState' = step.cs
        /\ rateLimiter' = step.rl
        /\ calls' = step.calls
        /\ last' = Mark(op, message, HookBusy, step.done, step.res, step.call)
        /\ UNCHANGED monitor

ApplySend(op, cs, message) == ApplySendWithin(MaxCalls, op, cs, message)

HandleSendMessage(message) == ApplySend("send", chatState, message)

\* handleSendMessage while a retry loop that lost its race may still run
HandleSendMessageOverlapping(message) ==
    ApplySendWithin(MaxOverlap, "send", chatState, message)

HandleRetry ==
    IF IsBlank(chatState.lastFailedMessage)
        THEN /\ last' = Mark("retry", NoText, HookBusy, FALSE, NoResult, NoCall)
             /\ UNCHANGED <<chatState, rateLimiter, monitor, calls>>
    ELSE ApplySend("retry",
                   [setError(chatState, "", FALSE, NoText)
                        EXCEPT !.retryCount = Min(@ + 1, MaxRetryCount)],
                   chatState.lastFailedMessage)

HandleExpand ==
    /\ chatState' = [chatState EXCEPT !.isExpanded = TRUE]
    /\ last' = Mark("expand", NoText, HookBusy, FALSE, NoResult, NoCall)
    /\ UNCHANGED <<rateLimiter, monitor, calls>>

\* a collapse that empties the history
HandleCollapseClearing ==
    /\ chatState' = [chatState EXCEPT !.isExpanded = FALSE, !.messages = << >>]
    /\ last' = Mark("collapse", NoText, HookBusy, FALSE, NoResult, NoCall)
    /\ UNCHANGED <<rateLimiter, monitor, calls>>

HandleCollapse ==
    /\ chatState' = [chatState EXCEPT !.isExpanded = FALSE]
    /\ last' = Mark("collapse", NoText, HookBusy, FALSE, NoResult, NoCall)
    /\ UNCHANGED <<rateLimiter, monitor, calls>>

InputTexts == {TPlain, TOver}

\* handleInputChange clearing the error text and nothing with it
HandleInputChangeKeepingRetry(value) ==
    LET cs1 == [chatState EXCEPT !.error = ""]
        cs2 == IF value[1].len <= MaxInputLength
                   THEN [cs1 EXCEPT !.currentInput = value]
               ELSE cs1
    IN  /\ chatState' = cs2
        /\ last' = Mark("input", value, HookBusy, FALSE, NoResult, NoCall)
        /\ UNCHANGED <<rateLimiter, monitor, calls>>

HandleInputChange(value) ==
    LET cs1 == IF chatState.error # "" THEN setError(chatState, "", FALSE, NoText)
               ELSE chatState
        cs2 == IF value[1].len <= MaxInputLength
                   THEN [cs1 EXCEPT !.currentInput = value]
               ELSE cs1
    IN  /\ chatState' = cs2
        /\ last' = Mark("input", value, HookBusy, FALSE, NoResult, NoCall)
        /\ UNCHANGED <<rateLimiter, monitor, calls>>

\* window 'online' / 'offline': the listeners of NetworkMonitor and of the hook
BrowserOnline ==
    /\ ~monitor.isOnline
    /\ monitor' = [monitor EXCEPT !.isOnline = TRUE, !.connectionSpeed = "fast"]
    /\ chatState' = updateNetworkStatus(chatState, "online")
    /\ last' = NoOp
    /\ UNCHANGED <<rateLimiter, calls>>

BrowserOffline ==
    /\ monitor.isOnline
    /\ monitor' = [monitor EXCEPT !.isOnline = FALSE, !.connectionSpeed = "offline"]
    /\ chatState' = updateNetworkStatus(chatState, "offline")
    /\ last' = NoOp
    /\ UNCHANGED <<rateLimiter, calls>>

RemoveAt(seq, i) == SubSeq(seq, 1, i - 1) \o SubSeq(seq, i + 1, Len(seq))

\* the result res of call i reaches its caller; calls2 is what stays waiting
Deliver(i, res, calls2) ==
    LET c == calls[i]
    IN  /\ calls' = calls2
        /\ chatState' = IF c.caller = "hook" THEN Resume(chatState, res, c.text)
                        ELSE chatState
        /\ last' = Mark("settle", c.text, FALSE, TRUE, res, c)

\* the retry loop of call i ends with result res
FinishLoop(i, res) ==
    IF calls[i].returned
        THEN /\ calls' = RemoveAt(calls, i)
             /\ last' = Mark("abandoned", NoText, FALSE, FALSE, NoResult, calls[i])
             /\ UNCHANGED chatState
    ELSE Deliver(i, res, RemoveAt(calls, i))

\* the probe of the first checkConnectionSpeed of call i settles
GenProbeSettle(i, outcome, delay) ==
    LET c == calls[i]
        mon == checkConnectionSpeedSettle(monitor, outcome, c.probeAge + delay,
                                          c.probeAge)
        out == AfterStatus(c, mon.connectionSpeed, rateLimiter, mon)
    IN  /\ c.pc = "probe"
        /\ monitor' = mon
        /\ rateLimiter' = out.rl
        /\ IF out.pending
               THEN /\ calls' = [calls EXCEPT ![i] = out.call]
                    /\ last' = NoOp
                    /\ UNCHANGED chatState
           ELSE Deliver(i, out.res, RemoveAt(calls, i))

\* a loop that takes the attempt before the last for the last
LastAttemptEarly(c) == c.attempt + 1 >= c.actualRetries

\* a loop that makes one attempt more than its budget
LastAttemptPastBudget(c) == c.attempt > c.actualRetries

\* withRetry: "Don't retry on the last attempt"
LastAttempt(c) == c.attempt = c.actualRetries

\* withRetry: the operation of call i settles
OpSettle(i, o) ==
    LET c == calls[i]
    IN  /\ c.pc = "race" /\ c.loop = "op"
        /\ UNCHANGED monitor
        /\ IF o.ok
               THEN /\ rateLimiter' = recordSuccess(rateLimiter)
                    /\ FinishLoop(i, SuccessResult("remote", o.len, FALSE))
           ELSE /\ rateLimiter' = recordFailure(rateLimiter)
                /\ IF \/ LastAttempt(c)
                      \/ ~shouldRetryError(classifyError(o.message))
                      \/ checkConnectionSpeedSync(monitor) = "offline"
                       THEN FinishLoop(i, CatchAiError(c, o.message))
                   ELSE /\ calls' = [calls EXCEPT ![i] =
                               [c EXCEPT !.lastError = o.message,
                                         !.probeAge = 0,
                                         !.loop = IF checkConnectionSpeedSync(monitor) = "fetch"
                                                      THEN "probing" ELSE "sleep"]]
                        /\ last' = NoOp
                        /\ UNCHANGED chatState

\* withRetry: the probe before a retry of call i settles
LoopProbeSettle(i, outcome, delay) ==
    LET c == calls[i]
        mon == checkConnectionSpeedSettle(monitor, outcome, c.probeAge + delay,
                                          c.probeAge)
    IN  /\ c.pc = "race" /\ c.loop = "probing"
        /\ monitor' = mon
        /\ UNCHANGED rateLimiter
        /\ IF mon.connectionSpeed = "offline"
               THEN FinishLoop(i, CatchAiError(c, c.lastError))
           ELSE /\ calls' = [calls EXCEPT ![i].loop = "sleep", ![i].probeAge = 0]
                /\ last' = NoOp
                /\ UNCHANGED chatState

\* withRetry: the retry delay of call i is over, the operation is invoked again
SleepDone(i) ==
    LET c == calls[i]
    IN  /\ c.pc = "race" /\ c.loop = "sleep"
        /\ calls' = [calls EXCEPT ![i] = [c EXCEPT !.attempt = @ + 1,
                                                   !.lastError = "",
                                                   !.loop = "op"]]
        /\ last' = NoOp
        /\ UNCHANGED <<chatState, rateLimiter, monitor>>

\* createTimeoutPromise rejects and wins the race of call i
Timeout(i) ==
    LET c == calls[i]
    IN  /\ c.pc = "race" /\ ~c.returned
        /\ c.raceAge >= TimeoutFor(c.status)
        /\ Deliver(i, CatchAiError(c, TimeoutMessage),
                   [calls EXCEPT ![i] = [c EXCEPT !.returned = TRUE, !.raceAge = 0,
                                                  !.text = NoText, !.retryCount = 0,
                                                  !.status = "fast"]])
        /\ UNCHANGED <<rateLimiter, monitor>>

OlderCall(c, ms) ==
    [c EXCEPT !.raceAge = IF c.pc = "race" /\ ~c.returned THEN Older(@, ms) ELSE @,
              !.probeAge = IF c.pc = "probe" \/ c.loop = "probing"
                               THEN Older(@, ms) ELSE @]

\* ms milliseconds pass
Tick(ms) ==
    /\ rateLimiter' = [rateLimiter EXCEPT
                           !.requests = [k \in 1..Len(@) |-> Older(@[k], ms)],
                           !.lastFailureAge = Older(@, ms)]
    /\ monitor' = [monitor EXCEPT !.lastSpeedTestAge = Older(@, ms)]
    /\ calls' = [k \in 1..Len(calls) |-> OlderCall(calls[k], ms)]
    /\ last' = [NoOp EXCEPT !.streak = last.streak]
    /\ UNCHANGED chatState

\* generateAIResponse(userMessage, retryCount) invoked by another caller
GenerateAIResponse(userMessage, retryCount) ==
    LET out == Begin(NewCall("direct", userMessage, retryCount, monitor),
                     rateLimiter, monitor)
    IN  /\ Len(calls) < MaxCalls
        /\ calls' = IF out.pending THEN Append(calls, out.call) ELSE calls
        /\ rateLimiter' = out.rl
        /\ last' = Mark("call", userMessage, FALSE, ~out.pending, out.res, out.call)
        /\ UNCHANGED <<chatState, monitor>>

\* the methods of the RateLimiter invoked one by one
LimCanMakeRequest ==
    /\ rateLimiter' = canMakeRequest(rateLimiter).rl
    /\ last' = [NoOp EXCEPT !.op = "canMakeRequest",
                            !.admitted = canMakeRequest(rateLimiter).ok,
                            !.streak = last.streak]
    /\ UNCHANGED <<chatState, monitor, calls>>

LimRecordFailure ==
    /\ rateLimiter' = recordFailure(rateLimiter)
    /\ last' = [NoOp EXCEPT !.op = "recordFailure",
                            !.streak = Min(last.streak + 1, FailureThreshold + 1)]
    /\ UNCHANGED <<chatState, monitor, calls>>

LimRecordSuccess ==
    /\ rateLimiter' = recordSuccess(rateLimiter)
    /\ last' = [NoOp EXCEPT !.op = "recordSuccess"]
    /\ UNCHANGED <<chatState, monitor, calls>>

(***************************************************************************)
(* The specifications                                                      *)
(***************************************************************************)
Init ==
    /\ \E online \in BOOLEAN :
          /\ chatState = [isExpanded |-> FALSE, messages |-> << >>,
                          currentInput |-> NoText, isLoading |-> FALSE,
                          error |-> "", canRetry |-> FALSE,
                          lastFailedMessage |-> NoText, retryCount |-> 0,
                          networkStatus |-> IF online THEN "online" ELSE "offline"]
          /\ monitor = [isOnline |-> online, connectionSpeed |-> "fast",
                        lastSpeedTestAge |-> AgeCap]
    /\ rateLimiter = [requests |-> << >>, failureCount |-> 0,
                      lastFailureAge |-> AgeCap]
    /\ calls = << >>
    /\ last = NoOp

\* the steps of the calls under way, the operation settling as one of
\* outcomes and the probes as one of probes
CallSteps(outcomes, probes) ==
    \E i \in 1..Len(calls) :
        \/ \E p \in probes : GenProbeSettle(i, p[1], p[2])
        \/ \E o \in outcomes : OpSettle(i, o)
        \/ \E p \in probes : LoopProbeSettle(i, p[1], p[2])
        \/ SleepDone(i)
        \/ Timeout(i)

\* the environment of the sessions explored
SessionOutcomes ==
    {o \in RemoteOutcomes :
        o.message \in {"", "AI service temporarily unavailable", "Rate limit exceeded"}}
SessionProbes == {<<"ok", 100>>, <<"ok", 2500>>, <<"throw", 100>>}
AllProbes == ProbeOutcomes \X ProbeDelays

RecentRequests == Len(SelectSeq(rateLimiter.requests, InWindow))

\* the user paces the sends: below MaxRecent requests in the last minute
Paced == RecentRequests < MaxRecent

\* A chat session: the user sends and retries, the calls proceed, time passes.
Next ==
    \/ \E message \in Texts : Paced /\ HandleSendMessage(message)
    \/ Paced /\ HandleRetry
    \/ CallSteps(SessionOutcomes, SessionProbes)
    \/ Tick(TickMs)

Spec == Init /\ [][Next]_vars

\* The AI response service called directly, one call after the other, while
\* the network comes and goes.
SvcTexts == {TOne, TPlain}

SvcNext ==
    \/ \E userMessage \in SvcTexts, retryCount \in 0..MaxRetryCount :
          GenerateAIResponse(userMessage, retryCount)
    \/ CallSteps(SessionOutcomes, SessionProbes)
    \/ BrowserOnline
    \/ BrowserOffline
    \/ Tick(TickMs)

SvcSpec == Init /\ [][SvcNext]_vars

\* The RateLimiter alone.
LimiterNext ==
    \/ LimCanMakeRequest
    \/ LimRecordFailure
    \/ LimRecordSuccess
    \/ Tick(FineTickMs)

LimiterSpec == Init /\ [][LimiterNext]_vars

\* A session in which the remote client fails every time with an error of a
\* retryable class, the network stays up, and the user sends when nothing
\* is shown and retries whenever a retryable error is shown.  Timers fire,
\* requests and probes settle and time passes: the steps of the calls and
\* the ticks are not postponed forever, nor is the user's retry.
LiveOutcomes == RetryableFailures
LiveProbes == {<<"ok", 100>>, <<"ok", 2500>>, <<"throw", 100>>}

RetryShown == chatState.error # "" /\ chatState.canRetry

LiveInit == Init /\ monitor.isOnline

LiveSend == chatState.error = "" /\ ~chatState.isLoading /\ HandleSendMessage(TPlain)

LiveRetry == RetryShown /\ HandleRetry

LiveNext ==
    \/ LiveSend
    \/ LiveRetry
    \/ CallSteps(LiveOutcomes, LiveProbes)
    \/ Tick(TickMs)

Fairness ==
    /\ WF_vars(LiveRetry)
    /\ WF_vars(CallSteps(LiveOutcomes, LiveProbes))
    /\ WF_vars(Tick(TickMs))

LiveSpec == LiveInit /\ [][LiveNext]_vars /\ Fairness

\* The same session when nothing but the timers is sure to happen: time
\* passes, the setTimeout of a retry delay and of createTimeoutPromise fire,
\* while a fetch, of the remote client or of a probe, may settle or not.
TimersFire == \E i \in 1..Len(calls) : SleepDone(i) \/ Timeout(i)

TimersFairness ==
    /\ WF_vars(Tick(TickMs))
    /\ WF_vars(TimersFire)

TimersSpec == LiveInit /\ [][LiveNext]_vars /\ TimersFairness

\* withRetry around an operation that throws a network error every time it
\* is invoked, the browser staying online: generateAIResponse is called
\* directly, its probes settle fast, slowly or not at all.
NetworkFailures == {o \in RemoteFailures : classifyError(o.message) = "NETWORK_ERROR"}

RetryInit == Init /\ monitor.isOnline

RetryNext ==
    \/ \E userMessage \in SvcTexts, retryCount \in {0, maxRetries} :
          GenerateAIResponse(userMessage, retryCount)
    \/ CallSteps(NetworkFailures, SessionProbes)
    \/ Tick(TickMs)

RetrySpec == RetryInit /\ [][RetryNext]_vars

\* withRetry around an operation that settles in every way callGeminiAPI can:
\* a reply, or any of the errors it throws.
ErrorsNext ==
    \/ \E userMessage \in SvcTexts, retryCount \in {0, maxRetries} :
          GenerateAIResponse(userMessage, retryCount)
    \/ CallSteps(RemoteOutcomes, SessionProbes)
    \/ Tick(TickMs)

ErrorsSpec == RetryInit /\ [][ErrorsNext]_vars

\* A chat session seen for what it appends: every text is sent, and the
\* remote reply is blank once trimmed, short or long.
ContentOutcomes ==
    [ok : {TRUE}, len : {0} \cup ReplyLens \cup {LongReplyLen}, message : {""}] \cup
    {o \in RemoteFailures : o.message = "AI service temporarily unavailable"}

ContentProbes == {<<"ok", 100>>}

ContentTexts == Texts \cup {TMax, TOver}

ContentNext ==
    \/ \E message \in ContentTexts : Paced /\ HandleSendMessage(message)
    \/ Paced /\ HandleRetry
    \/ CallSteps(ContentOutcomes, ContentProbes)
    \/ Tick(TickMs)

ContentSpec == Init /\ [][ContentNext]_vars

\* The chat as its component drives it: the panel is opened and closed and
\* the draft typed while sends and retries run and the network comes and goes.
UiTexts == {TPlain}

UiOutcomes ==
    {o \in RemoteOutcomes : o.message \in {"", "AI service temporarily unavailable"}}

UiNext ==
    \/ \E message \in UiTexts : Paced /\ HandleSendMessage(message)
    \/ Paced /\ HandleRetry
    \/ HandleExpand
    \/ HandleCollapse
    \/ \E value \in InputTexts : HandleInputChange(value)
    \/ CallSteps(UiOutcomes, ContentProbes)
    \/ BrowserOnline
    \/ BrowserOffline
    \/ Tick(TickMs)

UiSpec == Init /\ [][UiNext]_vars

\* A chat session in which the user sends again as soon as the hook lets
\* them, whatever became of the retry loops of the earlier sends.
OverlapNext ==
    \/ \E message \in UiTexts : HandleSendMessageOverlapping(message)
    \/ CallSteps(UiOutcomes, ContentProbes)
    \/ Tick(TickMs)

OverlapSpec == Init /\ [][OverlapNext]_vars

\* The validation alone, on texts whose trimmed length lies around the two
\* limits, with or without a refused pattern, which sanitizeUserInput leaves
\* as they are or shortens.
EdgeLens ==
    0..(MinInputLength + EdgeWidth) \cup
    (MaxInputLength - EdgeWidth)..(MaxInputLength + EdgeWidth)

ValidateTexts ==
    {<< Stage(n, u) >> : n \in EdgeLens, u \in BOOLEAN} \cup
    UNION {{<< Stage(n, u), Stage(m, FALSE) >> : u \in BOOLEAN,
                                                  m \in {k \in EdgeLens : k < n}} :
           n \in EdgeLens}

ValidateUserInput(t) ==
    /\ last' = [NoOp EXCEPT !.op = "validateUserInput", !.text = t, !.done = TRUE,
                            !.res = validateUserInput(t)]
    /\ UNCHANGED <<chatState, rateLimiter, monitor, calls>>

ValidateInput(t) ==
    /\ last' = [NoOp EXCEPT !.op = "validateInput", !.text = t, !.done = TRUE,
                            !.res = validateInput(t)]
    /\ UNCHANGED <<chatState, rateLimiter, monitor, calls>>

ValidateNext ==
    \/ \E t \in ValidateTexts : ValidateUserInput(t)
    \/ \E t \in ValidateTexts : ValidateInput(t)

ValidateSpec == Init /\ [][ValidateNext]_vars

\* sanitizeUserInput alone, applied to every string of at most MaxPieces
\* pieces and again to what it returned.
RECURSIVE StringsOf(_)
StringsOf(n) ==
    IF n = 0 THEN {<< >>}
    ELSE StringsOf(n - 1) \cup
         {Append(s, p) : s \in {q \in StringsOf(n - 1) : Len(q) = n - 1}, p \in Pieces}

Sanitize(s) ==
    /\ last' = [NoOp EXCEPT !.op = "sanitizeUserInput", !.text = s, !.done = TRUE,
                            !.res = sanitizeUserInputString(s)]
    /\ UNCHANGED <<chatState, rateLimiter, monitor, calls>>

SanitizeAgain ==
    /\ last.op = "sanitizeUserInput"
    /\ last.res # last.text
    /\ Sanitize(last.res)

SanitizeNext ==
    \/ \E s \in StringsOf(MaxPieces) : Sanitize(s)
    \/ SanitizeAgain

SanitizeSpec == Init /\ [][SanitizeNext]_vars

\* The NetworkMonitor under every outcome of its probes, the browser going
\* offline and online while the calls that probe are under way.
MonitorNext ==
    \/ \E userMessage \in UiTexts : GenerateAIResponse(userMessage, 0)
    \/ CallSteps(UiOutcomes, AllProbes)
    \/ BrowserOnline
    \/ BrowserOffline
    \/ Tick(TickMs)

MonitorSpec == Init /\ [][MonitorNext]_vars

\* The remote client failing at every invocation with a network error: the
\* user sends when nothing is shown and retries when a retryable error is,
\* generateAIResponse is also called directly with a text too short, the
\* browser goes offline and online, time passes in steps shorter than the
\* cooldown.  A call is made while the window holds at most MaxRecent
\* requests.
PacedWithin == RecentRequests <= MaxRecent

CooldownNext ==
    \/ PacedWithin /\ LiveSend
    \/ PacedWithin /\ LiveRetry
    \/ PacedWithin /\ GenerateAIResponse(TOne, 0)
    \/ CallSteps(NetworkFailures, SessionProbes)
    \/ BrowserOnline
    \/ BrowserOffline
    \/ Tick(FineTickMs)

CooldownSpec == Init /\ [][CooldownNext]_vars

(***************************************************************************)
(* POST /api/chat.  A request is met with the API key configured or not,    *)
(* a body of one of six kinds, and a provider that answers with text, with  *)
(* blank text, or throws.  What is thrown is an Error or not, and its       *)
(* message is told by the needles of the catch block that it holds.         *)
(***************************************************************************)
Needles == {"API_KEY", "API key", "RATE_LIMIT", "quota", "QUOTA", "blocked"}

Bodies == {"malformed", "null", "missing", "nonstring", "empty", "string"}

ProviderOutcomes ==
    {[kind |-> "text", isError |-> FALSE, has |-> {}],
     [kind |-> "blank", isError |-> FALSE, has |-> {}],
     [kind |-> "throw", isError |-> FALSE, has |-> {}]} \cup
    [kind : {"throw"}, isError : {TRUE}, has : SUBSET Needles]

PostRequests == [apiKey : BOOLEAN, body : Bodies, provider : ProviderOutcomes]

\* a NextResponse.json: success is "true", "false" or "absent" from the body
Response(status, error, success, called) ==
    [status |-> status, error |-> error, success |-> success,
     providerCalled |-> called]

\* the catch block answering blocked content with 500
PostCatchBlocked500(e, called) ==
    IF e.isError /\ e.has \cap {"API_KEY", "API key"} # {}
        THEN Response(500, "Invalid API key configuration", "false", called)
    ELSE IF e.isError /\ e.has \cap {"RATE_LIMIT", "quota"} # {}
        THEN Response(429, "Rate limit exceeded", "false", called)
    ELSE IF e.isError /\ "QUOTA" \in e.has
        THEN Response(429, "API quota exceeded", "false", called)
    ELSE IF e.isError /\ "blocked" \in e.has
        THEN Response(500, "Content was blocked by safety filters", "false", called)
    ELSE Response(500, "AI service temporarily unavailable", "false", called)

\* the catch block of POST
PostCatch(e, called) ==
    IF e.isError /\ e.has \cap {"API_KEY", "API key"} # {}
        THEN Response(500, "Invalid API key configuration", "false", called)
    ELSE IF e.isError /\ e.has \cap {"RATE_LIMIT", "quota"} # {}
        THEN Response(429, "Rate limit exceeded", "false", called)
    ELSE IF e.isError /\ "QUOTA" \in e.has
        THEN Response(429, "API quota exceeded", "false", called)
    ELSE IF e.isError /\ "blocked" \in e.has
        THEN Response(400, "Content was blocked by safety filters", "false", called)
    ELSE Response(500, "AI service temporarily unavailable", "false", called)

\* what request.json() or the destructuring of its value throws, and the
\* Error thrown for an empty text
PlainError == [kind |-> "throw", isError |-> TRUE, has |-> {}]

POST(request) ==
    IF ~request.apiKey
        THEN Response(500, "Gemini API key not configured", "absent", FALSE)
    ELSE IF request.body \in {"malformed", "null"}
        THEN PostCatch(PlainError, FALSE)
    ELSE IF request.body \in {"missing", "nonstring", "empty"}
        THEN Response(400, "Message is required and must be a string", "absent", FALSE)
    ELSE IF request.provider.kind = "text" THEN Response(200, "", "true", TRUE)
    ELSE IF request.provider.kind = "blank" THEN PostCatch(PlainError, TRUE)
    ELSE PostCatch(request.provider, TRUE)

Post(request) ==
    /\ last' = [NoOp EXCEPT !.op = "POST", !.text = request, !.done = TRUE,
                            !.res = POST(request)]
    /\ UNCHANGED <<chatState, rateLimiter, monitor, calls>>

RouteNext == \E request \in PostRequests : Post(request)

RouteSpec == Init /\ [][RouteNext]_vars

(***************************************************************************)
(* Properties                                                              *)
(***************************************************************************)
\* the sends of the hook in flight: user message appended, the call of
\* generateAIResponse not yet returned
InFlight == {i \in 1..Len(calls) : calls[i].caller = "hook" /\ ~calls[i].returned}

\* C1: at most one send of the hook is in flight at any time, and a send or
\* retry invoked while one is in flight leaves the message list as it was
\* and starts no call of generateAIResponse (no call is added, the rate
\* limiter is not consulted).
C1_OneSendInFlight ==
    [][/\ Cardinality(InFlight') <= 1
       /\ (last'.op \in {"send", "retry"} /\ last'.busy) =>
              /\ chatState'.messages = chatState.messages
              /\ calls' = calls
              /\ rateLimiter' = rateLimiter
              /\ last'.caller = ""]_vars

\* a send of a non-blank text was attempted while another was in flight
C1_Witness ==
    /\ last.op = "send" /\ last.busy /\ ~IsBlank(last.text)
    /\ Cardinality(InFlight) = 1

\* the latest message is an ai message holding the template fallback
FallbackShown ==
    /\ Len(chatState.messages) > 0
    /\ chatState.messages[Len(chatState.messages)].sender = "ai"
    /\ chatState.messages[Len(chatState.messages)].kind = "fallback"

\* C2: when the remote client fails every attempt with a retryable class and
\* the user retries whenever a retryable error is shown, every retryable
\* error shown is followed by an ai message holding the template fallback,
\* with no error left.
C2_EventuallyFallback == RetryShown ~> (FallbackShown /\ chatState.error = "")

\* a retry has been answered by the fallback
C2_Witness ==
    /\ last.done /\ last.res.fallbackUsed /\ FallbackShown
    /\ last.retryCount >= maxRetries

\* a step that ends a send of the hook: handleSendMessage ran beyond its
\* guard to one of its ends, in the step that invoked it or in the step
\* that handed it the result of generateAIResponse
SendEnds ==
    /\ last'.done
    /\ \/ last'.op \in {"send", "retry"}
       \/ last'.op = "settle" /\ last'.caller = "hook"

\* an ai message of the given kind is appended by the step
AiAppended(kind) ==
    /\ chatState'.messages # chatState.messages
    /\ chatState'.messages[Len(chatState'.messages)].sender = "ai"
    /\ chatState'.messages[Len(chatState'.messages)].kind = kind

RetryableErrorHeld == chatState'.error # "" /\ chatState'.canRetry
BannerHeld == chatState'.error # "" /\ ~chatState'.canRetry

ExactlyOne(outcomes) == Cardinality({k \in DOMAIN outcomes : outcomes[k]}) = 1

\* C3 as stated: every send that ends, ends in exactly one of: remote reply
\* appended, fallback reply appended, retryable error held.
C3_ThreeOutcomes ==
    [][SendEnds =>
          ExactlyOne(<<AiAppended("remote"), AiAppended("fallback"),
                       RetryableErrorHeld>>)]_vars

\* C3 amended: every send that ends, ends in exactly one of five outcomes:
\* remote reply appended, fallback reply appended, retryable error held,
\* the error text appended as an ai message, or an error without retry held
\* with nothing appended.
C3_FiveOutcomes ==
    [][SendEnds =>
          /\ ExactlyOne(<<AiAppended("remote"), AiAppended("fallback"),
                          RetryableErrorHeld, AiAppended("error"),
                          BannerHeld /\ chatState'.messages = chatState.messages>>)
          /\ ~chatState'.isLoading]_vars

\* generateAIResponse refused the sanitized text and the hook appended the
\* error text as an ai message
C3_Witness ==
    /\ last.done /\ last.op = "send" /\ last.caller = "hook"
    /\ last.res.error.type = "INVALID_INPUT"
    /\ chatState.messages[Len(chatState.messages)].kind = "error"
    /\ chatState.error = ""

\* the hook's own validation refuses the text of the send that ends
RejectedByHook ==
    /\ SendEnds /\ last'.caller = ""
    /\ chatState.networkStatus # "offline"
    /\ ~validateUserInput(last'.text).isValid

\* generateAIResponse returns an error that is not retryable to the hook
NonRetryableReturned ==
    /\ SendEnds /\ last'.caller = "hook"
    /\ last'.res.error.type # "" /\ ~last'.res.error.retryable

ErrorTextAppended ==
    /\ AiAppended("error")
    /\ chatState'.error = ""
    /\ ~chatState'.isLoading

\* C5 as stated: a send refused by the hook's validation or answered by a
\* non-retryable error appends the error text as an ai message, leaves no
\* error set and leaves the session idle.
C5_ErrorTextAlways ==
    [][(RejectedByHook \/ NonRetryableReturned) => ErrorTextAppended]_vars

\* C5 amended: a non-retryable error returned by generateAIResponse is
\* appended as an ai message with no error left set and the session idle; a
\* text refused by the hook's own validation appends nothing: the validation
\* error is held as an error without retry, the session idle.
C5_NonRetryable ==
    [][/\ NonRetryableReturned => ErrorTextAppended
       /\ RejectedByHook =>
              /\ chatState'.messages = chatState.messages
              /\ chatState'.error = validateUserInput(last'.text).error
              /\ ~chatState'.canRetry
              /\ ~chatState'.isLoading]_vars

\* the hook's validation refused a one-character text
C5_Witness ==
    /\ last.done /\ last.op = "send" /\ last.caller = "" /\ last.text = TOne
    /\ chatState.error = "V_TOO_SHORT" /\ ~chatState.canRetry

\* C6 as stated: a retry with no failed text stored changes nothing and calls
\* nothing; a retry with failed text T sends T, and the retry count it hands
\* to generateAIResponse is the incremented counter.
C6_RetryPassesIncrementedCount ==
    [][last'.op = "retry" =>
          IF IsBlank(chatState.lastFailedMessage)
              THEN /\ chatState' = chatState /\ calls' = calls
                   /\ rateLimiter' = rateLimiter /\ last'.caller = ""
          ELSE /\ last'.text = chatState.lastFailedMessage
               /\ last'.caller = "hook" =>
                      last'.retryCount = Min(chatState.retryCount + 1, MaxRetryCount)]_vars

\* the latest step returned the result of a call of generateAIResponse made
\* with a valid message and a retry count of maxRetries or more, and the
\* result is not a reply of the remote client
FailedAtMaxRetries ==
    /\ last.done /\ last.caller = "direct"
    /\ validateUserInput(last.text).isValid
    /\ last.retryCount >= maxRetries
    /\ ~(last.res.success /\ ~last.res.fallbackUsed)

FallbackReturned ==
    /\ last.res.success /\ last.res.fallbackUsed
    /\ last.res.response.len > 0

\* C4 as stated: in every state of the session, a call with a valid message
\* and retryCount >= maxRetries that gets no reply from the remote client
\* returns the fallback: success, fallbackUsed, a non-empty response.
C4_FallbackInEveryState == FailedAtMaxRetries => FallbackReturned

\* C4 amended: such a call returns the fallback when it passes the offline
\* check and the rate limiter (the operation is then invoked at least once);
\* a call stopped by one of the two returns NETWORK_ERROR or
\* RATE_LIMIT_ERROR without invoking the operation.
C4_FallbackWhenAdmitted ==
    FailedAtMaxRetries =>
        IF last.admitted THEN FallbackReturned /\ last.attempts >= 1
        ELSE /\ last.res.error.type \in {"NETWORK_ERROR", "RATE_LIMIT_ERROR"}
             /\ ~last.res.success /\ last.attempts = 0

\* an admitted call with retryCount >= maxRetries failed and returned the fallback
C4_Witness ==
    /\ FailedAtMaxRetries /\ last.admitted /\ FallbackReturned
    /\ last.attempts >= 1

\* C7: a call of generateAIResponse made while the network is offline
\* returns in the same step a NETWORK_ERROR result, success false and
\* retryable, leaves no call waiting, and neither the rate limiter nor the
\* operation is reached.
C7_OfflineReturnsNetworkError ==
    [][(last'.op = "call" /\ last'.offlineAtCall) =>
          /\ last'.done
          /\ ~last'.res.success
          /\ last'.res.error.type = "NETWORK_ERROR"
          /\ last'.res.error.retryable
          /\ last'.attempts = 0
          /\ calls' = calls
          /\ rateLimiter' = rateLimiter]_vars

\* generateAIResponse was called while offline
C7_Witness ==
    /\ last.op = "call" /\ last.offlineAtCall /\ ~monitor.isOnline
    /\ last.res.error.type = "NETWORK_ERROR"

\* maxRequests requests of the last windowMs are stored
WindowFull == RecentRequests >= maxRequests

Admitted == {i \in 1..Len(calls) : calls[i].admitted}

\* C8: with maxRequests admitted requests in the window, a call of
\* generateAIResponse with a valid message, made while not offline, returns
\* RATE_LIMIT_ERROR without an invocation of the operation, at once or when
\* the probe of its network check has settled; no step admits a call.
C8_EleventhCallRefused ==
    [][WindowFull =>
          /\ (/\ last'.op = "call"
              /\ validateInput(last'.text).valid
              /\ ~last'.offlineAtCall) =>
                 IF last'.done
                     THEN /\ last'.res.error.type = "RATE_LIMIT_ERROR"
                          /\ last'.attempts = 0
                          /\ calls' = calls
                 ELSE calls'[Len(calls')].pc = "probe"
          /\ (/\ last'.op = "settle" /\ ~last'.admitted
              /\ validateInput(last'.text).valid
              /\ monitor'.isOnline) =>
                 /\ last'.res.error.type = "RATE_LIMIT_ERROR"
                 /\ last'.attempts = 0
          /\ Cardinality(Admitted') <= Cardinality(Admitted)
          /\ ~(last'.op = "call" /\ last'.admitted)]_vars

\* the eleventh call of a window was refused, no cooldown being on
C8_Witness ==
    /\ WindowFull /\ ~InCooldown(rateLimiter)
    /\ last.op = "call" /\ last.done
    /\ last.res.error.type = "RATE_LIMIT_ERROR"

LocalCheckResult ==
    /\ last.done /\ last.caller = "direct"
    /\ last.res.error.type \in {"INVALID_INPUT", "RATE_LIMIT_ERROR"}

\* C9 as stated: a result of type INVALID_INPUT or RATE_LIMIT_ERROR is
\* returned before withRetry is entered and is not retryable.
C9_LocalResultsNotRetryable ==
    LocalCheckResult => last.attempts = 0 /\ ~last.res.error.retryable

\* C9 amended: a result of type INVALID_INPUT or RATE_LIMIT_ERROR is
\* returned before withRetry is entered; INVALID_INPUT is not retryable,
\* RATE_LIMIT_ERROR is retryable.
C9_LocalResultsBeforeRetry ==
    LocalCheckResult =>
        /\ last.attempts = 0
        /\ last.res.error.retryable = (last.res.error.type = "RATE_LIMIT_ERROR")

\* the rate limiter refused a call
C9_Witness ==
    /\ LocalCheckResult /\ last.res.error.type = "RATE_LIMIT_ERROR"
    /\ last.res.error.retryable /\ ~last.admitted

\* C10: with no failure recorded, canMakeRequest admits exactly when fewer
\* than maxRequests of the stored requests are younger than windowMs: it
\* refuses the request after maxRequests admitted ones of the window, admits
\* again once the oldest is windowMs old, and never holds more than
\* maxRequests requests of one window.
C10_WindowCap ==
    [][(last'.op = "canMakeRequest" /\ rateLimiter.failureCount = 0) =>
          /\ last'.admitted = (RecentRequests < maxRequests)
          /\ (Len(rateLimiter.requests) > 0 /\ rateLimiter.requests[1] >= windowMs)
                 => last'.admitted
          /\ RecentRequests' <= maxRequests
          /\ RecentRequests' = RecentRequests + (IF last'.admitted THEN 1 ELSE 0)]_vars

\* canMakeRequest refused the eleventh request of a window, no failure recorded
C10_Witness ==
    /\ last.op = "canMakeRequest" /\ ~last.admitted
    /\ rateLimiter.failureCount = 0
    /\ RecentRequests = maxRequests

\* C11: after FailureThreshold + 1 recordFailure calls in a row, every
\* canMakeRequest made less than CooldownMs after the latest failure returns
\* false, however many requests the window holds, and leaves the limiter as
\* it was: no timestamp is stored, the window is not even pruned.
C11_CooldownRefuses ==
    [][(/\ last'.op = "canMakeRequest"
        /\ last.streak > FailureThreshold
        /\ rateLimiter.lastFailureAge < CooldownMs) =>
           /\ ~last'.admitted
           /\ rateLimiter' = rateLimiter]_vars

\* a request was refused some time after the fourth failure in a row
\* although the window had room
C11_Witness ==
    /\ last.op = "canMakeRequest" /\ ~last.admitted
    /\ last.streak > FailureThreshold
    /\ rateLimiter.lastFailureAge > 0
    /\ RecentRequests < maxRequests

\* a step in which the retry loop of a call ends, its result handed to the
\* caller or, after the timeout, to nobody
LoopEnds == Len(calls') < Len(calls) /\ last'.attempts >= 1

\* C12: the budget of a loop begun under status online is maxRetries; when
\* the operation throws a network error at every invocation and the status
\* stays online, a loop with that budget ends after exactly maxRetries + 1
\* invocations and never holds more, and generateAIResponse is handed the
\* network error by it: a NETWORK_ERROR result, or the fallback when
\* the caller's retry count leaves no retry.
C12_NetworkErrorAttempts ==
    [][/\ ActualRetries("online") = maxRetries
       /\ \A i \in 1..Len(calls') :
              calls'[i].actualRetries = maxRetries =>
                  Attempts(calls'[i]) <= maxRetries + 1
       /\ (LoopEnds /\ last'.actualRetries = maxRetries) =>
              /\ last'.attempts = maxRetries + 1
              /\ last'.op = "settle" =>
                     IF last'.retryCount < maxRetries
                         THEN last'.res.error.type = "NETWORK_ERROR"
                     ELSE last'.res.fallbackUsed]_vars

\* a loop begun online ended by its fourth failure and handed the error over
C12_Witness ==
    /\ last.op = "settle" /\ last.actualRetries = maxRetries
    /\ last.attempts = maxRetries + 1
    /\ last.res.error.type = "NETWORK_ERROR"

RetriedTypes == {"NETWORK_ERROR", "TIMEOUT_ERROR", "SERVICE_UNAVAILABLE", "API_ERROR"}

\* C13: shouldRetryError is true of exactly NETWORK_ERROR, TIMEOUT_ERROR,
\* SERVICE_UNAVAILABLE and API_ERROR; a loop on its way to a further attempt
\* (probing the connection or sleeping) holds an error of one of these
\* types, the operation is invoked again from the sleep only, and a loop
\* whose last error is of type RATE_LIMIT_ERROR or INVALID_INPUT (the one
\* case in which generateAIResponse answers a loop's error with the fallback
\* while the caller has retries left) ends in the step in which the
\* operation threw it.
C13_NoRetryOfRateLimitOrInvalid ==
    [][/\ \A t \in AIServiceError : shouldRetryError(t) <=> t \in RetriedTypes
       /\ \A i \in 1..Len(calls') :
              calls'[i].loop \in {"probing", "sleep"} =>
                  classifyError(calls'[i].lastError) \in RetriedTypes
       /\ \A i \in 1..Len(calls) :
              (Len(calls') = Len(calls) /\ calls'[i].attempt > calls[i].attempt) =>
                  /\ calls[i].loop = "sleep"
                  /\ classifyError(calls[i].lastError) \in RetriedTypes
       /\ (/\ LoopEnds
           /\ last'.op = "settle"
           /\ last'.res.fallbackUsed
           /\ last'.retryCount < maxRetries) =>
              \E i \in 1..Len(calls) :
                  /\ calls' = RemoveAt(calls, i)
                  /\ calls[i].loop = "op" /\ ~calls[i].returned]_vars

\* the operation threw an error that is not retried at the first attempt of
\* a loop with three retries left, and the loop ended there
C13_Witness ==
    /\ last.op = "settle" /\ last.attempts = 1
    /\ last.actualRetries = maxRetries /\ last.retryCount = 0
    /\ last.res.fallbackUsed
    /\ rateLimiter.failureCount = 1
    /\ calls = <<>>

\* C14: a send that ends with a successful AIServiceResponse, remote or
\* fallback, whose text is appended as an ai message leaves the retry count
\* at 0.
C14_SuccessResetsRetryCount ==
    [][(/\ SendEnds
        /\ last'.res.success
        /\ AiAppended("remote") \/ AiAppended("fallback")) =>
           chatState'.retryCount = 0]_vars

\* a send begun by a retry, its call made with a retry count above 0, ended
\* with the remote reply
C14_Witness ==
    /\ last.op = "settle" /\ last.caller = "hook" /\ last.done
    /\ last.res.success /\ ~last.res.fallbackUsed
    /\ last.retryCount > 0
    /\ chatState.messages[Len(chatState.messages)].kind = "remote"
    /\ chatState.retryCount = 0

\* C15: every message of the chat has content that is not empty once
\* trimmed.
C15_NoEmptyMessage ==
    \A i \in 1..Len(chatState.messages) : chatState.messages[i].len > 0

\* a text that validateUserInput accepts and sanitizeUserInput empties was
\* sent: no user message was appended, the template reply was
C15_Witness ==
    /\ last.op = "send" /\ last.done /\ last.text = TTagOnly
    /\ validateUserInput(TTagOnly).isValid
    /\ Len(chatState.messages) > 0
    /\ chatState.messages[Len(chatState.messages)].sender = "ai"
    /\ chatState.messages[Len(chatState.messages)].kind = "fallback"

\* C16 as stated: every message of the chat, of the user or of the ai, has
\* content of at most 500 characters.
C16_EveryMessageWithin500 ==
    \A i \in 1..Len(chatState.messages) : chatState.messages[i].len <= MaxInputLength

\* C16 amended: every message of the user has content of at most 500
\* characters; the messages of the ai are not held to it.
C16_UserMessageWithin500 ==
    \A i \in 1..Len(chatState.messages) :
        chatState.messages[i].sender = "user" =>
            chatState.messages[i].len <= MaxInputLength

\* a text of 500 characters was sent and stands in the list as it is
C16_Witness ==
    /\ last.op = "send" /\ last.text = TMax
    /\ Len(chatState.messages) > 0
    /\ chatState.messages[Len(chatState.messages)].sender = "user"
    /\ chatState.messages[Len(chatState.messages)].len = MaxInputLength

\* C17: handleExpand and handleCollapse set the expansion flag and change
\* nothing else, in the chat state (messages, draft, loading flag, error,
\* retry flag, failed text, retry count, network status) or outside it,
\* whether a send is in flight or not.
C17_ExpandCollapseFrame ==
    [][last'.op \in {"expand", "collapse"} =>
          /\ chatState' = [chatState EXCEPT !.isExpanded = (last'.op = "expand")]
          /\ UNCHANGED <<rateLimiter, monitor, calls>>]_vars

\* the panel was closed while a send was in flight, a draft typed and the
\* user's message in the list
C17_Witness ==
    /\ last.op = "collapse" /\ last.busy
    /\ ~chatState.isExpanded /\ chatState.isLoading
    /\ Len(chatState.messages) > 0
    /\ ~IsBlank(chatState.currentInput)

\* the retry loops that are running
ActiveLoops(cc) == {i \in 1..Len(cc) : cc[i].pc = "race"}

\* C18 as stated: at most one retry loop runs at any time, and a loop whose
\* race the timeout has won makes no further attempt and no update of the
\* rate limiter while a later send is in flight: it stays as it is and the
\* rate limiter is changed by the send in flight only.
C18_OneRetrySequence ==
    [][/\ Cardinality(ActiveLoops(calls')) <= 1
       /\ (/\ Len(calls) > 1
           /\ calls[1].returned
           /\ HookBusy) =>
              /\ Len(calls') >= 1
              /\ calls'[1].returned
              /\ calls'[1].attempt = calls[1].attempt
              /\ calls'[1].loop = calls[1].loop]_vars

\* the trimmed length of the text just validated
ValidatedLen == last.text[1].len

C20_SanitizeIdempotent ==
    last.op = "sanitizeUserInput" => sanitizeUserInputString(last.res) = last.res

\* the request just answered came to the provider, which threw an Error
\* whose message holds these needles
ThrewWith(has) ==
    /\ last.text.apiKey /\ last.text.body = "string"
    /\ last.text.provider.kind = "throw" /\ last.text.provider.isError
    /\ last.text.provider.has = has

MessageRefused == last.text.apiKey /\ last.text.body \in {"missing", "nonstring", "empty"}

\* C21 as stated: every error response of POST has success false in its body
\* and an error text, with status 400 for a missing or non-string message and
\* for nothing else, 429 for rate-limit and quota failures, and 500 for a
\* missing API key (the provider not called), for an unavailable service and
\* for blocked content.
C21_ErrorResponses ==
    (last.op = "POST" /\ last.res.status # 200) =>
        /\ last.res.success = "false" /\ last.res.error # ""
        /\ last.res.status \in {400, 429, 500}
        /\ ~last.text.apiKey => last.res.status = 500 /\ ~last.res.providerCalled
        /\ MessageRefused <=> last.res.status = 400
        /\ ThrewWith({"RATE_LIMIT"}) \/ ThrewWith({"quota"}) \/ ThrewWith({"QUOTA"}) =>
               last.res.status = 429
        /\ ThrewWith({"blocked"}) \/ ThrewWith({}) => last.res.status = 500

\* C21 amended: every error response of POST has an error text; success false
\* is in the body of the responses built by the catch block only, the two
\* early refusals (no API key, no message string) have no success field.
\* The status is 500 for a missing API key (the provider not called), 400
\* for a missing, empty or non-string message and for blocked content, 429
\* for rate-limit and quota failures, and 500 for an unavailable service and
\* for a body that is not JSON or is null.
C21_ErrorResponsesAsBuilt ==
    (last.op = "POST" /\ last.res.status # 200) =>
        /\ last.res.error # ""
        /\ last.res.status \in {400, 429, 500}
        /\ last.res.success =
               IF ~last.text.apiKey \/ MessageRefused THEN "absent" ELSE "false"
        /\ ~last.text.apiKey => last.res.status = 500 /\ ~last.res.providerCalled
        /\ MessageRefused => last.res.status = 400
        /\ ThrewWith({"RATE_LIMIT"}) \/ ThrewWith({"quota"}) \/ ThrewWith({"QUOTA"}) =>
               last.res.status = 429
        /\ ThrewWith({"blocked"}) => last.res.status = 400
        /\ ThrewWith({}) => last.res.status = 500
        /\ (last.text.apiKey /\ last.text.body \in {"malformed", "null"}) =>
               last.res.status = 500 /\ ~last.res.providerCalled

\* the provider threw an Error that tells of blocked content
C21_Witness ==
    /\ last.op = "POST" /\ ThrewWith({"blocked"})
    /\ last.res.status = 400 /\ last.res.success = "false"
    /\ last.res.providerCalled

\* the retry loops that withRetry began under status offline: the budget is
\* 0 for that status only
BegunOffline(c) == c.pc = "race" /\ c.actualRetries = ActualRetries("offline")

\* C22 as stated: when the status is offline as withRetry starts, the
\* operation is not invoked at all.
C22_OfflineNoInvocation ==
    \A i \in 1..Len(calls) : BegunOffline(calls[i]) => Attempts(calls[i]) = 0

\* C22 amended: when the status is offline as withRetry starts, the
\* operation is invoked exactly once and never again: the loop has no retry.
C22_OfflineOneInvocation ==
    \A i \in 1..Len(calls) :
        BegunOffline(calls[i]) => Attempts(calls[i]) = 1 /\ calls[i].loop = "op"

\* the browser went offline while the probe of generateAIResponse was
\* pending, the probe failed, and withRetry invoked the operation
C22_Witness ==
    \E i \in 1..Len(calls) :
        /\ BegunOffline(calls[i]) /\ ~calls[i].returned
        /\ ~calls[i].offlineAtCall
        /\ ~monitor.isOnline

\* the retry loops that withRetry began under status slow
BegunSlow(c) == c.pc = "race" /\ c.actualRetries = ActualRetries("slow")

\* C23 as stated: when the status is slow as withRetry starts, the operation
\* is invoked at most twice more than under status online and at most 5
\* times in all.
C23_SlowAtMostFive ==
    \A i \in 1..Len(calls) :
        BegunSlow(calls[i]) =>
            /\ Attempts(calls[i]) <= maxRetries + 1 + SlowExtraRetries
            /\ Attempts(calls[i]) <= SlowRetryCap

\* C23 amended: when the status is slow as withRetry starts, the operation
\* is invoked at most twice more than the 4 times of status online, 6 times
\* in all: it is the retries after the first invocation that number at most 5.
C23_SlowAtMostSix ==
    \A i \in 1..Len(calls) :
        BegunSlow(calls[i]) =>
            /\ Attempts(calls[i]) <= maxRetries + 1 + SlowExtraRetries
            /\ calls[i].attempt <= SlowRetryCap

\* a loop begun under status slow whose operation failed five times is at
\* its sixth invocation
C23_Witness ==
    \E i \in 1..Len(calls) :
        /\ BegunSlow(calls[i]) /\ calls[i].loop = "op"
        /\ Attempts(calls[i]) = SlowRetryCap + 1
        /\ rateLimiter.failureCount > FailureThreshold

\* the fetch of a checkConnectionSpeed of call i, begun less than 30 s ago,
\* settles in the step
ProbeSettles(i) ==
    /\ calls[i].probeAge < SpeedTestIntervalMs
    /\ \/ /\ calls[i].pc = "probe"
          /\ \/ calls' = RemoveAt(calls, i)
             \/ Len(calls') = Len(calls) /\ calls'[i].pc = "race"
       \/ /\ calls[i].loop = "probing"
          /\ \/ calls' = RemoveAt(calls, i)
             \/ Len(calls') = Len(calls) /\ calls'[i].loop = "sleep"

\* C24 as stated: at most one probe is issued per 30 seconds, whatever the
\* probes come to: once a probe begun less than 30 s ago has settled, a
\* checkConnectionSpeed called then issues no request but returns the cached
\* status.
C24_ProbeThrottled ==
    [][\A i \in 1..Len(calls) :
           ProbeSettles(i) => checkConnectionSpeedSync(monitor') # "fetch"]_vars

\* the monitor's status, or the speed it holds, becomes offline in the step
GoesOffline ==
    \/ getNetworkStatus(monitor') = "offline" /\ getNetworkStatus(monitor) # "offline"
    \/ monitor'.connectionSpeed = "offline" /\ monitor.connectionSpeed # "offline"

C26_InputClearsError ==
    [][/\ last'.op = "input" =>
              /\ chatState' =
                     [chatState EXCEPT
                          !.error = "",
                          !.canRetry = IF chatState.error # "" THEN FALSE ELSE @,
                          !.lastFailedMessage = IF chatState.error # "" THEN NoText ELSE @,
                          !.currentInput = IF last'.text[1].len <= MaxInputLength
                                               THEN last'.text ELSE @]
              /\ UNCHANGED <<rateLimiter, monitor, calls>>
       /\ (last'.op = "retry" /\ IsBlank(chatState.lastFailedMessage)) =>
              UNCHANGED <<chatState, rateLimiter, monitor, calls>>]_vars

\* a send ended with a retryable error, then a text of 501 characters was
\* typed: the error and the failed text are gone, the draft is as it was
C26_Witness ==
    /\ last.op = "input" /\ last.text = TOver
    /\ chatState.error = "" /\ ~chatState.canRetry
    /\ IsBlank(chatState.lastFailedMessage)
    /\ IsBlank(chatState.currentInput)
    /\ ~chatState.isLoading /\ calls = << >>
    /\ Len(chatState.messages) > 0
    /\ chatState.messages[Len(chatState.messages)].sender = "user"

\* a step in which a call of generateAIResponse runs its checks, with the
\* connection status it was given and the text it was called with
ChecksRun(status, text) ==
    \/ /\ last'.op \in {"call", "send", "retry"} /\ last'.caller # ""
       /\ status = checkConnectionSpeedSync(monitor) /\ status # "fetch"
       /\ text = IF last'.op = "call" THEN last'.text
                 ELSE validateUserInput(last'.text).sanitized
    \/ \E i \in 1..Len(calls), p \in SessionProbes :
           /\ GenProbeSettle(i, p[1], p[2])
           /\ status = monitor'.connectionSpeed
           /\ text = calls[i].text

\* the fourth invocation of the operation by one retry loop fails
FourthFailure ==
    \E i \in 1..Len(calls), o \in NetworkFailures :
        OpSettle(i, o) /\ Attempts(calls[i]) = maxRetries + 1

Statuses == {"fast", "slow", "offline"}

\* C27 as stated: with the limiter in failure cooldown, every call of
\* generateAIResponse returns RATE_LIMIT_ERROR and invokes the remote
\* client not once.
C27_AnyCallRefused ==
    [][\A status \in Statuses, text \in SvcTexts :
           (ChecksRun(status, text) /\ InCooldown(rateLimiter)) =>
               /\ last'.res.error.type = "RATE_LIMIT_ERROR"
               /\ last'.attempts = 0]_vars

\* C27: the fourth failed invocation of one retry loop leaves the limiter
\* in failure cooldown; a call of generateAIResponse that comes to its
\* limiter check during the cooldown, online and with a valid text, returns
\* RATE_LIMIT_ERROR; and no call that runs its checks during the cooldown
\* invokes the remote client or changes the limiter, the ones that end at
\* the offline check (NETWORK_ERROR) or at the validation check
\* (INVALID_INPUT) included.
C27_CooldownAfterFourFailures ==
    [][/\ FourthFailure =>
              InCooldown(rateLimiter') /\ rateLimiter'.lastFailureAge = 0
       /\ \A status \in Statuses, text \in SvcTexts :
              (ChecksRun(status, text) /\ InCooldown(rateLimiter)) =>
                  /\ last'.res.error.type =
                         IF status = "offline" THEN "NETWORK_ERROR"
                         ELSE IF ~validateInput(text).valid THEN "INVALID_INPUT"
                         ELSE "RATE_LIMIT_ERROR"
                  /\ last'.attempts = 0
                  /\ Len(calls') < Len(calls) \/ calls' = calls
                  /\ rateLimiter' = rateLimiter]_vars

\* the user's retry, 20 s after the fourth failure of the send before it,
\* was refused by the limiter: the one slot of the window is the send's
C27_Witness ==
    /\ last.op = "retry" /\ last.caller = "hook"
    /\ last.res.error.type = "RATE_LIMIT_ERROR" /\ last.attempts = 0
    /\ rateLimiter.failureCount = maxRetries + 1
    /\ rateLimiter.lastFailureAge = FineTickMs
    /\ Len(rateLimiter.requests) = 1
    /\ calls = << >>

\* withRetry is begun in the step by the call that runs its checks
EntersRace ==
    \/ Len(calls') > Len(calls)
    \/ \E i \in 1..Len(calls) :
           calls[i].pc = "probe" /\ Len(calls') = Len(calls) /\ calls'[i].pc = "race"

\* C28: a call of generateAIResponse that ends at the offline check or at
\* the validation check leaves the limiter as it was; a call that passes
\* both stores at most one timestamp, after the window is pruned, and
\* stores it exactly when it goes on to withRetry; and no other step of
\* the service stores or drops a timestamp, whatever the number of
\* invocations the retry loop comes to.
C28_OneSlotPerCall ==
    [][/\ \A status \in Statuses, text \in SvcTexts :
              ChecksRun(status, text) =>
                  IF status = "offline" \/ ~validateInput(text).valid
                      THEN rateLimiter' = rateLimiter /\ ~EntersRace
                  ELSE LET kept == SelectSeq(rateLimiter.requests, InWindow)
                       IN  /\ rateLimiter'.requests \in
                                  {rateLimiter.requests, kept, Append(kept, 0)}
                           /\ EntersRace <=> rateLimiter'.requests = Append(kept, 0)
                           /\ rateLimiter'.failureCount = rateLimiter.failureCount
                           /\ rateLimiter'.lastFailureAge = rateLimiter.lastFailureAge
       /\ (\A status \in Statuses, text \in SvcTexts : ~ChecksRun(status, text)) =>
              \/ rateLimiter'.requests = rateLimiter.requests
              \/ Tick(TickMs)
       /\ \A i \in 1..Len(calls) :
              (Len(calls') = Len(calls) /\ Attempts(calls'[i]) > Attempts(calls[i])
                   /\ calls[i].pc = "race") =>
                  rateLimiter'.requests = rateLimiter.requests]_vars

\* a call went through all the invocations of its budget and the window
\* holds the one timestamp stored when the call was admitted
C28_Witness ==
    /\ last.op = "settle" /\ last.attempts = maxRetries + 1
    /\ rateLimiter.requests = << 0 >>
    /\ rateLimiter.failureCount = maxRetries + 1

\* C29 as stated: with the timers firing, and whether the requests sent out
\* during a send settle or not, a session that is loading comes to a state
\* in which it is not.
C29_SendingEnds == chatState.isLoading ~> ~chatState.isLoading

\* ErrorDisplay is rendered with its retry control
RetryOffered == chatState.error # "" /\ chatState.canRetry

\* C30: in every state of the chat the retry flag is set exactly when a
\* failed text that is not blank is stored, either of them only while an
\* error message is set, and so the retry control is offered exactly when
\* handleRetry has a text to send again.
C30_RetryFieldsConsistent ==
    /\ chatState.canRetry <=> ~IsBlank(chatState.lastFailedMessage)
    /\ chatState.canRetry => chatState.error # ""
    /\ ~IsBlank(chatState.lastFailedMessage) => chatState.error # ""
    /\ RetryOffered <=> ~IsBlank(chatState.lastFailedMessage)

\* a send that was answered with a retryable error left its text stored and
\* the retry control offered, the user message in the list
C30_Witness ==
    /\ RetryOffered /\ chatState.lastFailedMessage = TPlain
    /\ last.op = "settle" /\ last.res.error.retryable
    /\ ~chatState.isLoading
    /\ Len(chatState.messages) > 0

====
